---------------------------- MODULE Spec2Model ----------------------------
(***************************************************************************)
(* API monitor of src/main.py: the module-level MonitoringConfig object,   *)
(* the AsyncIOScheduler it registers its single job with, the request      *)
(* handlers start_monitoring / stop_monitoring / get_status, the lifespan  *)
(* handlers startup_event / shutdown_event and the check routine           *)
(* monitor_api.                                                            *)
(*                                                                         *)
(* Granularity.  Everything runs on one asyncio event loop.  The request   *)
(* and lifespan handlers contain no await, so each runs to completion and  *)
(* is one action.  monitor_api suspends at `await client.get(...)`         *)
(* (line 64), so a check is several steps: the scheduler submits it, the   *)
(* task starts and issues the GET, the transport answers or fails, the     *)
(* task resumes.                                                           *)
(*                                                                         *)
(* Optional values (Python None) are sequences: <<>> is None, <<v>> is v.  *)
(***************************************************************************)
EXTENDS Integers, Sequences, FiniteSets, TLC

\* Largest interval (in seconds) the interval trigger built by add_job
\* accepts.  In the program this is the range of datetime.timedelta /
\* datetime (add_job raises OverflowError beyond it); it is scaled down here
\* because the model checker's integers are 32 bits wide.
MaxDelta == 2

\* interval_seconds values a start request carries: 0 (not a valid period),
\* the accepted periods 1..MaxDelta, and one period beyond the trigger's range.
Intervals == 0 .. (MaxDelta + 1)

\* endpoint values a start request carries; "" is the empty query parameter.
Endpoints == {"", "http://a", "http://b"}

\* Status codes the monitored endpoint answers with.
StatusCodes == {200, 500}

None == << >>
Some(v) == << v >>

VARIABLES
  lifecycle,   \* "created" | "started" | "shutdown": the ASGI lifespan
  cfg,         \* monitor_config: [is_active, endpoint, interval, job]
  sched,       \* scheduler: [state, jobs, pending]
  tick,        \* the running instance of monitor_api, if any
  rec,         \* the last structured record printed by monitor_api
  last,        \* the last request handled and its response
  starts,      \* successful starts since the last successful stop
  stopped      \* the endpoint the last successful stop cleared, until a start succeeds

vars == << lifecycle, cfg, sched, tick, rec, last, starts, stopped >>

-----------------------------------------------------------------------------
(* MonitoringConfig, lines 47-53 *)

MonitoringConfig ==
  [is_active |-> FALSE, endpoint |-> None, interval |-> None, job |-> None]

\* Faulty variant of the test of line 57: `is None` instead of truthiness.
NotNone(opt) == opt # None

\* Python truthiness of monitor_config.endpoint (line 57): None and "" are falsy.
Truthy(opt) == opt # None /\ opt[1] # ""

-----------------------------------------------------------------------------
(* The scheduler: AsyncIOScheduler with a MemoryJobStore, line 45.         *)
(* jobs is the store's job list, pending the jobs added while the          *)
(* scheduler is not running.                                               *)

NewScheduler == [state |-> "stopped", jobs |-> << >>, pending |-> << >>]

JobId == "api_monitor"

\* The interval trigger of add_job(..., 'interval', seconds=s): a zero-length
\* interval is replaced by one second.
TriggerSeconds(s) == IF s = 0 THEN 1 ELSE s

\* The Job object add_job returns (lines 98-104).
Job(s) == [id |-> JobId, seconds |-> TriggerSeconds(s)]

\* Building the trigger raises when the interval is out of range.
AddJobRaises(s) == s > MaxDelta

HasId(js, id) == \E k \in 1 .. Len(js) : js[k].id = id

WithoutId(js, id) == SelectSeq(js, LAMBDA j : j.id # id)

\* Adding to the job store with replace_existing=True (line 103).
StoreAdd(js, job) ==
  IF HasId(js, job.id)
    THEN [k \in 1 .. Len(js) |-> IF js[k].id = job.id THEN job ELSE js[k]]
    ELSE Append(js, job)

RECURSIVE StoreAddAll(_, _)
StoreAddAll(js, pend) ==
  IF pend = << >> THEN js ELSE StoreAddAll(StoreAdd(js, Head(pend)), Tail(pend))

\* scheduler.add_job (lines 98-104): into the store when running, else pending.
SchedAddJob(s, job) ==
  IF s.state = "running"
    THEN [s EXCEPT !.jobs = StoreAdd(@, job)]
    ELSE [s EXCEPT !.pending = Append(@, job)]

\* job.remove() (lines 115, 154) raises JobLookupError when no job of that id
\* is in the store (or, when the scheduler is not running, among the pending).
RemoveRaises(s, job) ==
  IF s.state = "running" THEN ~HasId(s.jobs, job.id) ELSE ~HasId(s.pending, job.id)

SchedRemoveJob(s, job) ==
  IF s.state = "running"
    THEN [s EXCEPT !.jobs = WithoutId(@, job.id)]
    ELSE [s EXCEPT !.pending = WithoutId(@, job.id)]

\* scheduler.start() (line 149): the pending jobs enter the store.
SchedStart(s) ==
  [state |-> "running", jobs |-> StoreAddAll(s.jobs, s.pending), pending |-> << >>]

\* scheduler.shutdown() (line 155): raises when not running; else the executor
\* cancels its running jobs and the memory job store drops its jobs.
ShutdownRaises(s) == s.state # "running"

SchedShutdown(s) == [s EXCEPT !.state = "stopped", !.jobs = << >>]

JobCount(s) == Len(s.jobs) + Len(s.pending)

-----------------------------------------------------------------------------
(* Request handlers.  Each returns the configuration and scheduler it      *)
(* leaves behind, the HTTP status code and the response body.  An          *)
(* exception that is not an HTTPException leaves the handler as a 500.     *)

Detail(d) == [detail |-> d]

InternalError == Detail("Internal Server Error")

\* Faulty variants of the guard of start_monitoring: one that never rejects,
\* one that looks at the job handle instead of is_active.
NeverActive(c) == FALSE

ActiveByJob(c) == c.job # None

\* The guard of start_monitoring, line 91.
AlreadyActive(c) == c.is_active

\* Faulty variant of start_monitoring: line 95 (the interval) is left out.
StartResultNoInterval(c, s, e, i) ==
  IF c.is_active
    THEN [cfg |-> c, sched |-> s, code |-> 400,
          body |-> Detail("Monitoring is already active")]
    ELSE LET c1 == [c EXCEPT !.endpoint = Some(e), !.is_active = TRUE]
         IN  IF AddJobRaises(i)
               THEN [cfg |-> c1, sched |-> s, code |-> 500, body |-> InternalError]
               ELSE [cfg |-> [c1 EXCEPT !.job = Some(Job(i))],
                     sched |-> SchedAddJob(s, Job(i)),
                     code |-> 200,
                     body |-> [status |-> "Monitoring started",
                               endpoint |-> e, interval |-> i]]

\* start_monitoring, lines 88-106.
StartResult(c, s, e, i) ==
  IF AlreadyActive(c)
    THEN [cfg |-> c, sched |-> s, code |-> 400,
          body |-> Detail("Monitoring is already active")]
    ELSE LET c1 == [c EXCEPT !.endpoint = Some(e), !.interval = Some(i),
                             !.is_active = TRUE]
         IN  IF AddJobRaises(i)
               THEN [cfg |-> c1, sched |-> s, code |-> 500, body |-> InternalError]
               ELSE [cfg |-> [c1 EXCEPT !.job = Some(Job(i))],
                     sched |-> SchedAddJob(s, Job(i)),
                     code |-> 200,
                     body |-> [status |-> "Monitoring started",
                               endpoint |-> e, interval |-> i]]

\* Faulty variant of the guard of stop_monitoring: it never rejects.
NeverInactive(c) == FALSE

\* The guard of stop_monitoring, line 111.
NotActive(c) == ~c.is_active

\* Faulty variant of stop_monitoring: line 115 (job.remove()) is left out.
StopResultNoRemove(c, s) ==
  IF ~c.is_active
    THEN [cfg |-> c, sched |-> s, code |-> 400,
          body |-> Detail("No active monitoring")]
    ELSE [cfg |-> [is_active |-> FALSE, endpoint |-> None,
                   interval |-> None, job |-> None],
          sched |-> s,
          code |-> 200,
          body |-> [status |-> "Monitoring stopped"]]

\* stop_monitoring, lines 108-122.
StopResult(c, s) ==
  IF NotActive(c)
    THEN [cfg |-> c, sched |-> s, code |-> 400,
          body |-> Detail("No active monitoring")]
    ELSE IF c.job # None /\ RemoveRaises(s, c.job[1])
      THEN [cfg |-> c, sched |-> s, code |-> 500, body |-> InternalError]
      ELSE [cfg |-> [is_active |-> FALSE, endpoint |-> None,
                     interval |-> None, job |-> None],
            sched |-> IF c.job # None THEN SchedRemoveJob(s, c.job[1]) ELSE s,
            code |-> 200,
            body |-> [status |-> "Monitoring stopped"]]

\* Faulty variant of get_status: the interval is taken from the job's trigger.
StatusBodyFromJob(c) ==
  [is_active |-> c.is_active, endpoint |-> c.endpoint,
   interval |-> IF c.job = None THEN None ELSE Some(c.job[1].seconds)]

\* get_status, lines 124-131.
StatusBody(c) ==
  [is_active |-> c.is_active, endpoint |-> c.endpoint, interval |-> c.interval]

\* Faulty variant of shutdown_event: line 155 (scheduler.shutdown()) is left out.
ShutdownSchedNoHalt(c, s) ==
  IF c.job # None /\ ~RemoveRaises(s, c.job[1]) THEN SchedRemoveJob(s, c.job[1]) ELSE s

\* shutdown_event, lines 151-155: the scheduler it leaves behind.  When
\* job.remove() raises, scheduler.shutdown() is not reached.
ShutdownSched(c, s) ==
  IF c.job # None /\ RemoveRaises(s, c.job[1])
    THEN s
    ELSE LET s1 == IF c.job # None THEN SchedRemoveJob(s, c.job[1]) ELSE s
         IN  IF ShutdownRaises(s1) THEN s1 ELSE SchedShutdown(s1)

\* Whether shutdown_event reached scheduler.shutdown() and it did not raise.
ShutdownCompletes(c, s) ==
  /\ ~(c.job # None /\ RemoveRaises(s, c.job[1]))
  /\ ~ShutdownRaises(IF c.job # None THEN SchedRemoveJob(s, c.job[1]) ELSE s)

-----------------------------------------------------------------------------
(* One run of monitor_api, lines 55-86.                                    *)

NoRecord == [kind |-> "none", status_code |-> None, endpoint |-> None, sent |-> None]

IdleTick(outcome, t) ==
  [pc |-> "idle", url |-> None, status |-> None, outcome |-> outcome,
   records |-> t.records, errors |-> t.errors]

\* The task has not run yet.
SubmittedTick ==
  [pc |-> "submitted", url |-> None, status |-> None, outcome |-> "none",
   records |-> 0, errors |-> 0]

\* Lines 57-64: the endpoint check, then the GET to the endpoint read at line 64.
TickStartResult(c, t) ==
  IF ~Truthy(c.endpoint)
    THEN IdleTick("no_endpoint", [t EXCEPT !.errors = @ + 1])
    ELSE [t EXCEPT !.pc = "waiting", !.url = c.endpoint]

\* Lines 65-81: the log entry; its endpoint is read again at line 72.  sent is
\* the URL the GET went to (not part of the entry).
SuccessRecord(c, t) ==
  [kind |-> "success", status_code |-> t.status, endpoint |-> c.endpoint,
   sent |-> t.url]

\* Faulty variant of lines 65-81: an answer of 400 or more is also reported
\* with an error record.
TickResponseAlsoError(t) ==
  IdleTick("success",
           [t EXCEPT !.records = IF t.status[1] >= 400 THEN @ + 2 ELSE @ + 1,
                     !.errors = IF t.status[1] >= 400 THEN @ + 1 ELSE @])

TickResponseResult(t) ==
  IdleTick("success",
           [t EXCEPT !.records = @ + 1,
                     !.errors = IF t.status[1] >= 400 THEN @ + 1 ELSE @])

\* Lines 83-86: the except branch.
ErrorRecord(t) ==
  [kind |-> "error", status_code |-> None, endpoint |-> None, sent |-> t.url]

\* Faulty variant of the except branch: the exception leaves monitor_api.
TickFailureRaises(t) == IdleTick("raised", t)

TickFailureResult(t) ==
  IdleTick("error", [t EXCEPT !.records = @ + 1, !.errors = @ + 1])

-----------------------------------------------------------------------------
(* Initial state and actions.                                              *)

NoRequest ==
  [seq |-> 0, op |-> "none", endpoint |-> None, interval |-> None,
   code |-> 0, body |-> Detail("")]

Handled(op, e, i, code, body) ==
  [seq |-> 1 - last.seq, op |-> op, endpoint |-> e, interval |-> i,
   code |-> code, body |-> body]

Init ==
  /\ lifecycle = "created"
  /\ cfg = MonitoringConfig
  /\ sched = NewScheduler
  /\ tick = IdleTick("none", [records |-> 0, errors |-> 0])
  /\ rec = NoRecord
  /\ last = NoRequest
  /\ starts = 0
  /\ stopped = None

\* Requests are served once the application has started.
Serving == lifecycle # "created"

\* startup_event, lines 147-149.
Startup ==
  /\ lifecycle = "created"
  /\ lifecycle' = "started"
  /\ sched' = SchedStart(sched)
  /\ UNCHANGED << cfg, tick, rec, last, starts, stopped >>

\* shutdown_event, lines 151-155.  The executor's shutdown cancels a check
\* that is still running.
Shutdown ==
  /\ lifecycle = "started"
  /\ lifecycle' = "shutdown"
  /\ sched' = ShutdownSched(cfg, sched)
  /\ tick' = IF ShutdownCompletes(cfg, sched) /\ tick.pc # "idle"
               THEN IdleTick("cancelled", tick)
               ELSE tick
  /\ UNCHANGED << cfg, rec, last, starts, stopped >>

\* POST /monitor/start
StartMonitoring(e, i) ==
  /\ Serving
  /\ LET r == StartResult(cfg, sched, e, i)
     IN  /\ cfg' = r.cfg
         /\ sched' = r.sched
         /\ last' = Handled("start", Some(e), Some(i), r.code, r.body)
         /\ starts' = IF r.code = 200 THEN starts + 1 ELSE starts
         /\ stopped' = IF r.code = 200 THEN None ELSE stopped
  /\ UNCHANGED << lifecycle, tick, rec >>

\* Faulty variant of stop_monitoring: it also cancels the running check.
StopMonitoringCancels ==
  /\ Serving
  /\ LET r == StopResult(cfg, sched)
     IN  /\ cfg' = r.cfg
         /\ sched' = r.sched
         /\ last' = Handled("stop", None, None, r.code, r.body)
         /\ starts' = IF r.code = 200 THEN 0 ELSE starts
         /\ stopped' = IF r.code = 200 THEN cfg.endpoint ELSE stopped
         /\ tick' = IF r.code = 200 /\ tick.pc # "idle"
                      THEN IdleTick("cancelled", tick)
                      ELSE tick
  /\ UNCHANGED << lifecycle, rec >>

\* POST /monitor/stop
StopMonitoring ==
  /\ Serving
  /\ LET r == StopResult(cfg, sched)
     IN  /\ cfg' = r.cfg
         /\ sched' = r.sched
         /\ last' = Handled("stop", None, None, r.code, r.body)
         /\ starts' = IF r.code = 200 THEN 0 ELSE starts
         /\ stopped' = IF r.code = 200 THEN cfg.endpoint ELSE stopped
  /\ UNCHANGED << lifecycle, tick, rec >>

\* GET /monitor/status
GetStatus ==
  /\ Serving
  /\ last' = Handled("status", None, None, 200, StatusBody(cfg))
  /\ UNCHANGED << lifecycle, cfg, sched, tick, rec, starts, stopped >>

\* GET /health, lines 134-136.
HealthCheck ==
  /\ Serving
  /\ last' = Handled("health", None, None, 200, [status |-> "healthy"])
  /\ UNCHANGED << lifecycle, cfg, sched, tick, rec, starts, stopped >>

\* POST /callback, lines 138-145.  request.json() raises on a body that is
\* not JSON.
HandleCallback(json) ==
  /\ Serving
  /\ last' = IF json
               THEN Handled("callback", None, None, 200, [status |-> "Callback received"])
               ELSE Handled("callback", None, None, 500, InternalError)
  /\ UNCHANGED << lifecycle, cfg, sched, tick, rec, starts, stopped >>

\* The scheduler submits the due job to its executor: only while running,
\* only a job in the store, and (max_instances is 1) only when no instance of
\* it is still running.
TickSubmit ==
  /\ sched.state = "running"
  /\ HasId(sched.jobs, JobId)
  /\ tick.pc = "idle"
  /\ tick' = SubmittedTick
  /\ UNCHANGED << lifecycle, cfg, sched, rec, last, starts, stopped >>

\* The task runs up to the await of line 64.
TickStart ==
  /\ tick.pc = "submitted"
  /\ tick' = TickStartResult(cfg, tick)
  /\ UNCHANGED << lifecycle, cfg, sched, rec, last, starts, stopped >>

\* The monitored endpoint answers.
NetRespond(code) ==
  /\ tick.pc = "waiting"
  /\ tick' = [tick EXCEPT !.pc = "responded", !.status = Some(code)]
  /\ UNCHANGED << lifecycle, cfg, sched, rec, last, starts, stopped >>

\* The request fails in transport: client.get raises.
NetFail ==
  /\ tick.pc = "waiting"
  /\ tick' = [tick EXCEPT !.pc = "failed"]
  /\ UNCHANGED << lifecycle, cfg, sched, rec, last, starts, stopped >>

\* The task resumes after the response, lines 65-81.
TickOnResponse ==
  /\ tick.pc = "responded"
  /\ rec' = SuccessRecord(cfg, tick)
  /\ tick' = TickResponseResult(tick)
  /\ UNCHANGED << lifecycle, cfg, sched, last, starts, stopped >>

\* Faulty variant of the except branch: a failed check switches monitoring off.
TickOnFailureDeactivates ==
  /\ tick.pc = "failed"
  /\ rec' = ErrorRecord(tick)
  /\ tick' = TickFailureResult(tick)
  /\ cfg' = [cfg EXCEPT !.is_active = FALSE]
  /\ UNCHANGED << lifecycle, sched, last, starts, stopped >>

\* The task resumes in the except branch, lines 83-86.
TickOnFailure ==
  /\ tick.pc = "failed"
  /\ rec' = ErrorRecord(tick)
  /\ tick' = TickFailureResult(tick)
  /\ UNCHANGED << lifecycle, cfg, sched, last, starts, stopped >>

Next ==
  \/ Startup
  \/ Shutdown
  \/ \E e \in Endpoints, i \in Intervals : StartMonitoring(e, i)
  \/ StopMonitoring
  \/ GetStatus
  \/ HealthCheck
  \/ \E json \in BOOLEAN : HandleCallback(json)
  \/ TickSubmit
  \/ TickStart
  \/ \E code \in StatusCodes : NetRespond(code)
  \/ NetFail
  \/ TickOnResponse
  \/ TickOnFailure

Spec == Init /\ [][Next]_vars

\* The scheduler's timer submits a due job, and the event loop runs every
\* task that is ready.  No fairness for the requests or the transport.
LiveSpec ==
  /\ Spec
  /\ WF_vars(TickSubmit)
  /\ WF_vars(TickStart)
  /\ WF_vars(TickOnResponse)
  /\ WF_vars(TickOnFailure)

\* The GET of a running check ends: the endpoint answers, or the client
\* raises (no timeout is passed at line 64, so the client's default applies).
NetAnswer == (\E code \in StatusCodes : NetRespond(code)) \/ NetFail

LiveNetSpec == LiveSpec /\ WF_vars(NetAnswer)

-----------------------------------------------------------------------------
(* Properties.                                                             *)

\* A request of kind op is handled in this step.
HandledStep(op) == last'.seq # last.seq /\ last'.op = op

ActiveStatus(e, i) ==
  [is_active |-> TRUE, endpoint |-> Some(e), interval |-> Some(i)]

InactiveStatus == [is_active |-> FALSE, endpoint |-> None, interval |-> None]

AllJobs(s) == s.jobs \o s.pending

\* C1: in every reachable state is_active is true exactly when endpoint is
\* non-null, exactly when interval is non-null and exactly when the job
\* handle is non-null.
C1_FieldsAgree ==
  /\ cfg.is_active = (cfg.endpoint # None)
  /\ cfg.is_active = (cfg.interval # None)
  /\ cfg.is_active = (cfg.job # None)

\* C2: the scheduler never holds more than one job, every job it holds has
\* the identity "api_monitor", and no two start requests succeed without a
\* successful stop between them, in whatever order requests are handled.
C2_SingleJob ==
  /\ JobCount(sched) <= 1
  /\ \A k \in 1 .. Len(AllJobs(sched)) : AllJobs(sched)[k].id = JobId
  /\ starts <= 1

\* A second start was handled (and rejected) while the first one's job is
\* registered.
C2_Witness ==
  /\ starts = 1
  /\ JobCount(sched) = 1
  /\ last.op = "start"
  /\ last.code = 400

\* C3: a start request handled while is_active is true is answered 400 and
\* leaves the configuration (the job handle included) and the scheduler (the
\* registered job and its interval included) as they were.
C3_StartWhileActiveRejected ==
  [][(HandledStep("start") /\ cfg.is_active)
       => (/\ last'.code = 400
           /\ last'.body = Detail("Monitoring is already active")
           /\ cfg' = cfg
           /\ sched' = sched)]_vars

\* A start with another endpoint and interval was rejected; the first one's
\* values and job are still there.
C3_Witness ==
  /\ last.op = "start"
  /\ last.code = 400
  /\ cfg.is_active
  /\ cfg.endpoint # last.endpoint
  /\ cfg.interval # last.interval
  /\ JobCount(sched) = 1

\* C4: a stop request handled while is_active is false is answered 400 and
\* leaves the configuration and the scheduler as they were; a stop handled
\* right after a successful stop is answered so.
C4_StopWhileInactiveRejected ==
  [][/\ (HandledStep("stop") /\ ~cfg.is_active)
          => (/\ last'.code = 400
              /\ last'.body = Detail("No active monitoring")
              /\ cfg' = cfg
              /\ sched' = sched)
     /\ (HandledStep("stop") /\ last.op = "stop" /\ last.code = 200)
          => last'.code = 400]_vars

\* A stop was rejected while inactive, after monitoring had been used (a check
\* has run).
C4_Witness ==
  /\ last.op = "stop"
  /\ last.code = 400
  /\ ~cfg.is_active
  /\ tick.outcome # "none"

\* What C5 says of a start(e, i) handled in this step.
StartSucceeds(e, i) ==
  /\ last'.code = 200
  /\ last'.body = [status |-> "Monitoring started", endpoint |-> e, interval |-> i]
  /\ AllJobs(sched') = << [id |-> JobId, seconds |-> i] >>
  /\ StatusBody(cfg') = ActiveStatus(e, i)

C6_StopResets ==
  (last.op = "stop" /\ last.code = 200)
    => (/\ cfg = MonitoringConfig
        /\ StatusBody(cfg) = InactiveStatus
        /\ JobCount(sched) = 0)

\* A stop succeeded while the scheduler was running.
C6_Witness ==
  /\ last.op = "stop"
  /\ last.code = 200
  /\ sched.state = "running"

\* C7: when the GET of a check fails in transport, the check ends in the
\* except branch with one error record, leaving configuration and scheduler
\* (the registered job) as they were; and when the job is registered at the
\* failure, another check is submitted afterwards unless monitoring stops
\* being active or the scheduler stops running.
C7_FailureContained ==
  /\ [][(tick.pc = "failed" /\ tick' # tick /\ lifecycle' = lifecycle)
          => (/\ tick'.pc = "idle"
              /\ tick'.outcome = "error"
              /\ tick'.records = tick.records + 1
              /\ rec'.kind = "error"
              /\ cfg' = cfg
              /\ sched' = sched)]_vars
  /\ (tick.pc = "failed" /\ HasId(sched.jobs, JobId))
       ~> (tick.pc = "submitted" \/ ~cfg.is_active \/ sched.state # "running")

\* A check failed in transport and ended; monitoring is still active with its
\* job registered.
C7_Witness ==
  /\ tick.pc = "idle"
  /\ tick.outcome = "error"
  /\ rec.kind = "error"
  /\ cfg.is_active
  /\ HasId(sched.jobs, JobId)

\* C8: a stop request handled while is_active is true succeeds and leaves the
\* configuration inactive, also when the job of the stored handle is no
\* longer in the scheduler.
C8_StopSucceedsWhenActive ==
  [][(HandledStep("stop") /\ cfg.is_active)
       => (last'.code = 200 /\ ~cfg'.is_active)]_vars

\* C9: a start request that does not succeed leaves endpoint, interval,
\* is_active and the job handle as they were.
C9_FailedStartNoMutation ==
  [][(HandledStep("start") /\ last'.code # 200) => cfg' = cfg]_vars

\* C10: the stored interval is null or at least 1, no job is registered with
\* an interval below 1, and no start with interval_seconds <= 0 succeeds.
C10_IntervalAtLeastOne ==
  /\ cfg.interval = None \/ cfg.interval[1] >= 1
  /\ \A k \in 1 .. Len(AllJobs(sched)) : AllJobs(sched)[k].seconds >= 1
  /\ (last.op = "start" /\ last.interval[1] <= 0) => last.code # 200

\* shutdown_event runs in this step.
ShutdownStep == lifecycle = "started" /\ lifecycle' = "shutdown"

\* C11: shutdown_event, from any state it runs in, leaves no job registered
\* and the scheduler stopped; from then on the scheduler is never running
\* again, its store stays empty and no check is submitted.
C11_ShutdownHalts ==
  [][/\ ShutdownStep => (JobCount(sched') = 0 /\ sched'.state = "stopped")
     /\ lifecycle' = "shutdown" => (sched'.state = "stopped" /\ sched'.jobs = << >>)
     /\ lifecycle = "shutdown" => tick'.pc # "submitted"]_vars

\* shutdown_event ran while monitoring was active and a check was running.
C11_Witness ==
  /\ lifecycle = "shutdown"
  /\ cfg.is_active
  /\ cfg.job # None
  /\ tick.outcome = "cancelled"
  /\ JobCount(sched) = 0

\* C12: after shutdown_event has run, is_active is false and endpoint,
\* interval and the job handle are null.
C12_ShutdownResets ==
  [][ShutdownStep => cfg' = MonitoringConfig]_vars

\* C13: a status, health or callback request leaves the configuration, the
\* scheduler, the running check and its records unchanged, and status is
\* answered 200 with the current is_active, endpoint and interval.
C13_ReadsArePure ==
  [][/\ (HandledStep("status") \/ HandledStep("health") \/ HandledStep("callback"))
          => (cfg' = cfg /\ sched' = sched /\ tick' = tick /\ rec' = rec)
     /\ HandledStep("status")
          => (/\ last'.code = 200
              /\ last'.body = [is_active |-> cfg.is_active,
                               endpoint |-> cfg.endpoint,
                               interval |-> cfg.interval])]_vars

\* A status request was answered while monitoring is active with a stored
\* interval that differs from the trigger's.
C13_Witness ==
  /\ last.op = "status"
  /\ last.body.is_active
  /\ last.body.interval = Some(0)
  /\ cfg.job # None

\* C14: in every reachable state is_active is true exactly when the
\* scheduler holds the "api_monitor" job.
C14_ActiveIffJob == cfg.is_active = HasId(AllJobs(sched), JobId)

\* The task of a submitted check runs its first step (lines 57-64).
TickStartStep ==
  tick.pc = "submitted" /\ tick'.pc # "submitted" /\ lifecycle' = lifecycle

\* What the first step does when it issues the GET, and when it does not.
IssuesGet == tick'.pc = "waiting" /\ tick'.url = cfg.endpoint

LogsNoEndpoint ==
  /\ tick'.pc = "idle"
  /\ tick'.outcome = "no_endpoint"
  /\ tick'.errors = tick.errors + 1
  /\ tick'.records = tick.records
  /\ rec' = rec

\* C15 as stated: a check issues its GET, to the endpoint it observes, exactly
\* when that endpoint is non-null; otherwise it logs an error and issues no
\* request.
C15_Original ==
  [][TickStartStep
       => IF cfg.endpoint # None THEN IssuesGet ELSE LogsNoEndpoint]_vars

\* C15 amended: a check issues its GET, to the endpoint it observes, exactly
\* when that endpoint is neither null nor the empty string; otherwise it logs
\* an error and issues no request.
C15_GetIffEndpoint ==
  [][TickStartStep
       => IF cfg.endpoint # None /\ cfg.endpoint # Some("")
            THEN IssuesGet
            ELSE LogsNoEndpoint]_vars

\* A check found the empty endpoint of an active configuration and issued no
\* request.
C15_Witness ==
  /\ tick.pc = "idle"
  /\ tick.outcome = "no_endpoint"
  /\ tick.errors = 1
  /\ cfg.is_active
  /\ cfg.endpoint = Some("")

\* The GET of the running check has been issued.
InFlight == tick.pc \in {"waiting", "responded", "failed"}

\* C16 as stated: every check that issued its GET has, when it ends, emitted
\* exactly one structured record.
C16_Original ==
  [][(InFlight /\ tick'.pc = "idle") => tick'.records = 1]_vars

\* C16 amended: a check that issued its GET and is not cancelled by the
\* shutdown of the scheduler emits exactly one structured record: a success
\* record when a response was received (with one error-level log when the
\* status is 400 or more, none otherwise), an error record when the request
\* failed in transport; it never emits more than one.  A check cancelled by
\* shutdown emits none.
C16_OneRecord ==
  [][/\ tick'.records <= 1
     /\ (tick.pc = "responded" /\ tick'.pc = "idle" /\ ~ShutdownStep)
          => (/\ tick'.records = 1
              /\ tick'.outcome = "success"
              /\ rec'.kind = "success"
              /\ rec'.status_code = tick.status
              /\ tick'.errors = IF tick.status[1] >= 400 THEN 1 ELSE 0)
     /\ (tick.pc = "failed" /\ tick'.pc = "idle" /\ ~ShutdownStep)
          => (/\ tick'.records = 1
              /\ tick'.outcome = "error"
              /\ rec'.kind = "error")
     /\ (InFlight /\ ShutdownStep) => tick'.records = 0
     /\ (InFlight /\ tick'.pc # "idle") => tick'.records = 0]_vars

\* A check answered with status 500 ended with its one success record and one
\* error-level log.
C16_Witness ==
  /\ tick.pc = "idle"
  /\ tick.outcome = "success"
  /\ tick.records = 1
  /\ tick.errors = 1
  /\ rec.kind = "success"
  /\ rec.status_code = Some(500)

\* C17: the endpoint field of a success record is the URL the GET of that
\* check was sent to.
C17_RecordNamesSource == rec.kind = "success" => rec.endpoint = rec.sent

\* C18: between a successful stop and the next successful start no check is
\* submitted, and no check that starts running issues a GET to the endpoint
\* the stop cleared.
C18_StopCancelsFuture ==
  [][(stopped # None /\ stopped' = stopped)
       => (/\ ~(tick.pc = "idle" /\ tick'.pc = "submitted")
           /\ ~(tick.pc = "submitted" /\ tick'.pc = "waiting"
                  /\ tick'.url = stopped))]_vars

\* The check has ended with its record.
Reported ==
  tick.pc = "idle" /\ tick.outcome \in {"success", "error"} /\ tick.records = 1

\* C19 as stated: a stop leaves a running check alone, and a check whose GET
\* was issued before a successful stop eventually ends with its record.
C19_Original ==
  /\ [][HandledStep("stop") => (tick' = tick /\ rec' = rec)]_vars
  /\ (InFlight /\ last.op = "stop" /\ last.code = 200) ~> Reported

\* C19 amended: a stop leaves a running check alone (it neither cancels it
\* nor waits for it), and a check whose GET was issued before a successful
\* stop eventually ends with its record unless the application shuts down
\* first, which cancels it.
C19_InFlightSurvivesStop ==
  /\ [][HandledStep("stop") => (tick' = tick /\ rec' = rec)]_vars
  /\ (InFlight /\ last.op = "stop" /\ last.code = 200)
       ~> (Reported \/ lifecycle = "shutdown")

\* A stop has succeeded while the GET of a check is still waiting for its
\* answer.
C19_Witness ==
  /\ tick.pc = "waiting"
  /\ last.op = "stop"
  /\ last.code = 200
  /\ ~cfg.is_active
  /\ lifecycle = "started"

\* C20: no step of a check (submission, endpoint test, answer, failure, the
\* success or except branch) changes the configuration or the scheduler's
\* jobs.
C20_TickWritesNothing ==
  [][(tick' # tick /\ ~ShutdownStep) => (cfg' = cfg /\ sched' = sched)]_vars

\* A check answered with status 500 has ended; monitoring is still active
\* with its job registered.
C20_Witness ==
  /\ tick.pc = "idle"
  /\ tick.outcome = "success"
  /\ rec.status_code = Some(500)
  /\ cfg.is_active
  /\ HasId(sched.jobs, JobId)
  /\ last.op = "start"

=============================================================================
